---- MODULE Spec2Model ----
(***************************************************************************)
(* Model of the resume optimizer: the upload form controller               *)
(* (client/pages/Index.tsx, the role-requiring form of lines 36-549) and   *)
(* the upload relay handler (handleUpload, README.md lines 65-162).        *)
(*                                                                         *)
(* The form is a React component: every handler runs to completion and the *)
(* state updates it makes are applied as one batch, so a handler is one    *)
(* action.  An asynchronous handleSubmit is two actions: the part up to    *)
(* the awaited fetch, and the continuation that runs when the call         *)
(* settles.  Nothing between the later awaits (response.json(),            *)
(* response.blob()) writes state, so the continuation is one action.       *)
(***************************************************************************)
EXTENDS Integers, Sequences, FiniteSets, TLC

(***************************************************************************)
(* Bounds of the model.                                                    *)
(***************************************************************************)
\* longest list of files one drop event carries
MaxDrop == 2
\* most handleSubmit invocations awaiting their fetch at once
MaxPending == 2
\* most earlier invocations in flight when the handler-level specification
\* calls handleSubmit again
MaxOverlap == 1

(***************************************************************************)
(* Program constants.                                                      *)
(***************************************************************************)
\* Index.tsx:63   const maxSizeInBytes = 5 * 1024 * 1024
maxSizeInBytes == 5242880
\* Index.tsx:180  userInput.length > 500
MaxUserInputLength == 500
\* Index.tsx:28-34  LOADING_MESSAGES.length
NumLoadingMessages == 5

OneMiB == 1024 * 1024

\* the absent value: null, undefined, a missing field or header
None == "none"

PDF == "application/pdf"
DOCX == "application/vnd.openxmlformats-officedocument.wordprocessingml.document"
TXT == "text/plain"

(***************************************************************************)
(* Files.  A File is its media type, its byte size and its name; a name is *)
(* the sequence of its characters, so that the extension stripping of      *)
(* downloadPDF is computed and not assumed.                                *)
(***************************************************************************)
MkFile(t, s, n) == [type |-> t, size |-> s, name |-> n]

Files ==
  { MkFile(PDF, maxSizeInBytes, <<"m", "y", ".", "c", "v", ".", "p", "d", "f">>),
    MkFile(PDF, OneMiB, <<"c", "v">>),
    MkFile(PDF, maxSizeInBytes + 1, <<"b", "i", "g", ".", "p", "d", "f">>),
    MkFile(DOCX, OneMiB, <<"c", "v", ".", "d", "o", "c", "x">>),
    MkFile(TXT, 6 * OneMiB, <<"l", "o", "g", ".", "t", "x", "t">>) }

\* the lists of files a drop event can carry
RECURSIVE SeqsUpTo(_, _)
SeqsUpTo(S, n) ==
  IF n = 0 THEN {<<>>}
  ELSE LET shorter == SeqsUpTo(S, n - 1)
       IN  shorter \cup {Append(s, x) : s \in {t \in shorter : Len(t) = n - 1}, x \in S}

DropLists == SeqsUpTo(Files, MaxDrop)

\* Index.tsx:15-26 (two of the ten roles)
TARGET_ROLES == {"Backend Developer", "Data Scientist"}

\* A text is its characters and its length (String.length)
MkText(s, n) == [chars |-> s, length |-> n]
Texts ==
  { MkText("", 0),
    MkText("<500 characters>", MaxUserInputLength),
    MkText("<501 characters>", MaxUserInputLength + 1) }


(***************************************************************************)
(* Messages.  A message is a sequence of string pieces, so that a template *)
(* literal is the concatenation of its pieces.                             *)
(***************************************************************************)
Str(s) == <<s>>

\* JavaScript truthiness of an optional string field
Truthy(v) == v # None /\ v # ""

(***************************************************************************)
(* validateFile, Index.tsx:58-69                                           *)
(***************************************************************************)
validateFileSizeOnly(f) ==
  IF f.size > maxSizeInBytes THEN "File size must be less than 5MB."
  ELSE ""

validateFileSizeOff(f) ==
  IF f.type # PDF THEN "Only PDF files are supported."
  ELSE IF f.size >= maxSizeInBytes THEN "File size must be less than 5MB."
  ELSE ""

validateFile(f) ==
  IF f.type # PDF THEN "Only PDF files are supported."
  ELSE IF f.size > maxSizeInBytes THEN "File size must be less than 5MB."
  ELSE ""

(***************************************************************************)
(* downloadPDF's file name, Index.tsx:137-138:                             *)
(*   originalFileName.replace(/\.[^/.]+$/, "")                             *)
(* The regular expression is tried at each position from the left; it      *)
(* matches at i when the character at i is a dot and it is followed, up to *)
(* the end of the name, by one or more characters that are neither a dot   *)
(* nor a slash.  The first match is replaced by the empty string.          *)
(***************************************************************************)
ExtensionMatchesAt(s, i) ==
  /\ s[i] = "."
  /\ i < Len(s)
  /\ \A j \in (i + 1)..Len(s) : s[j] \notin {"/", "."}

\* name.split('.')[0], as downloadJson of the other form does (Index.tsx:688)
baseNameFirstDot(s) ==
  LET dots == {i \in 1..Len(s) : s[i] = "."}
  IN  IF dots = {} THEN s
      ELSE SubSeq(s, 1, (CHOOSE i \in dots : \A j \in dots : i <= j) - 1)

baseName(s) ==
  LET hits == {i \in 1..Len(s) : ExtensionMatchesAt(s, i)}
  IN  IF hits = {} THEN s
      ELSE LET first == CHOOSE i \in hits : \A j \in hits : i <= j
           IN  SubSeq(s, 1, first - 1)

downloadNamePlain(originalFileName) ==
  <<"resume_">> \o baseName(originalFileName) \o <<".pdf">>

downloadName(originalFileName) ==
  <<"resume_">> \o baseName(originalFileName) \o <<"_optimized.pdf">>


(***************************************************************************)
(* Responses of the upload call.  A response is its status line, its       *)
(* content-type header and its body; `failed` says that fetch rejected     *)
(* (no response at all), `blobOk` that reading the body as a blob and     *)
(* creating the download works.  A body is a JSON object with optional     *)
(* string fields detail and error, the JSON value null, or text that is    *)
(* not JSON.                                                               *)
(***************************************************************************)
JsonObject(d, e) == [kind |-> "object", detail |-> d, error |-> e]
JsonNull == [kind |-> "null", detail |-> None, error |-> None]
NotJson == [kind |-> "text", detail |-> None, error |-> None]
\* the value of a field that was never set
Undefined == [kind |-> "undefined", detail |-> None, error |-> None]

MkResponse(st, txt, ct, b, blob) ==
  [failed |-> FALSE, status |-> st, statusText |-> txt, contentType |-> ct,
   body |-> b, blobOk |-> blob]

NetworkFailure ==
  [failed |-> TRUE, status |-> 0, statusText |-> "", contentType |-> None,
   body |-> NotJson, blobOk |-> FALSE]

\* no response at all (the handler that ran handled none)
NoResponse ==
  [failed |-> FALSE, status |-> 0, statusText |-> "", contentType |-> None,
   body |-> Undefined, blobOk |-> FALSE]

Responses ==
  { MkResponse(200, "OK", "application/pdf", NotJson, TRUE),
    MkResponse(200, "OK", "application/pdf", NotJson, FALSE),
    MkResponse(200, "", "application/pdf; charset=binary", NotJson, TRUE),
    MkResponse(200, "OK", "application/json", JsonObject(None, None), TRUE),
    MkResponse(200, "OK", None, NotJson, TRUE),
    MkResponse(500, "Internal Server Error", "application/json",
               JsonObject("parser failure", None), TRUE),
    MkResponse(500, "Internal Server Error", "application/json",
               JsonObject("parser failure", "bad gateway"), TRUE),
    MkResponse(500, "Internal Server Error", "application/json",
               JsonObject("", "bad gateway"), TRUE),
    MkResponse(500, "Internal Server Error", "application/json",
               JsonObject(None, "bad gateway"), TRUE),
    MkResponse(500, "Internal Server Error", "application/json",
               JsonObject(None, None), TRUE),
    MkResponse(500, "Internal Server Error", "application/json", JsonNull, TRUE),
    MkResponse(500, "Internal Server Error", "text/html", NotJson, TRUE),
    MkResponse(500, "", "text/html", NotJson, TRUE),
    NetworkFailure }

\* Response.ok
ResponseOk(r) == r.status \in 200..299

\* contentType?.includes("application/pdf"), Index.tsx:217
IncludesPdf(ct) == ct \in {"application/pdf", "application/pdf; charset=binary"}

\* the message of the error fetch rejects with
FetchErrorMessage == <<"Failed to fetch">>
\* the message of the SyntaxError response.json() throws on a body that is not JSON
JsonErrorMessage == <<"Unexpected token in JSON">>

(***************************************************************************)
(* The message of a non-OK response, Index.tsx:204-213.  Reading a field   *)
(* of null throws inside the try, so a null body takes the catch branch    *)
(* like a body that is not JSON.                                           *)
(***************************************************************************)
HttpErrorMessageErrorFirst(r) ==
  LET errorMessage == <<"HTTP error! status: ", ToString(r.status)>>
  IN  IF r.body.kind = "object"
      THEN IF Truthy(r.body.error) THEN Str(r.body.error)
           ELSE IF Truthy(r.body.detail) THEN Str(r.body.detail)
           ELSE errorMessage
      ELSE IF r.statusText # "" THEN Str(r.statusText) ELSE errorMessage

HttpErrorMessage(r) ==
  LET errorMessage == <<"HTTP error! status: ", ToString(r.status)>>
  IN  IF r.body.kind = "object"
      THEN IF Truthy(r.body.detail) THEN Str(r.body.detail)
           ELSE IF Truthy(r.body.error) THEN Str(r.body.error)
           ELSE errorMessage
      ELSE IF r.statusText # "" THEN Str(r.statusText) ELSE errorMessage

(***************************************************************************)
(* The state of the form, Index.tsx:37-46.                                 *)
(***************************************************************************)
\* useState<File | null>(null): null is NoFile
NoFile == MkFile(None, 0, <<>>)

\* ProcessedResume | null, Index.tsx:9-13; an undefined error is <<>>
NoOutcome == [isNull |-> TRUE, success |-> FALSE, data |-> Undefined, error |-> <<>>]
Success(d) == [isNull |-> FALSE, success |-> TRUE, data |-> d, error |-> <<>>]
Failure(m) == [isNull |-> FALSE, success |-> FALSE, data |-> Undefined, error |-> m]

Toast(t, d) == [title |-> t, description |-> d]
NoToast == Toast("", <<>>)

\* the parts of one upload request, Index.tsx:194-197
MkRequest(f, r, t) == [file |-> f, target_role |-> r, user_input |-> t]
NoRequest == MkRequest(NoFile, "", MkText("", 0))

VARIABLES
  file,                 \* the held file
  targetRole,           \* "" or a role
  userInput,            \* a text
  isProcessing,
  processedResume,      \* the stored outcome
  isDragOver,
  currentMessageIndex,  \* index into LOADING_MESSAGES
  fileError,            \* "" or the validation message
  pending,              \* the upload requests in flight, oldest first
  event                 \* what the handler that ran last did (see Event)

\* the request of the submission that started last; only the retry
\* specification keeps it
VARIABLE attempt

\* whether the setInterval of the loading-message effect is live; only the
\* timer specification keeps it
VARIABLE interval

formVars == <<file, targetRole, userInput, isProcessing, processedResume, isDragOver,
              currentMessageIndex, fileError, pending, event>>

(***************************************************************************)
(* What one run of a handler did that the state does not keep: the file it *)
(* validated, the notification it raised (toast), the name of the file     *)
(* save it triggered, the upload request it issued or saw settle, and the  *)
(* response it handled.                                                    *)
(***************************************************************************)
Event(op, f, t, d, req, resp) ==
  [op |-> op, file |-> f, toast |-> t, download |-> d, request |-> req, response |-> resp]

Ran(op) == Event(op, NoFile, NoToast, <<>>, NoRequest, NoResponse)
Validated(op, f, t) == Event(op, f, t, <<>>, NoRequest, NoResponse)
Refused(op, t) == Event(op, NoFile, t, <<>>, NoRequest, NoResponse)
Issued(op, req) == Event(op, NoFile, NoToast, <<>>, req, NoResponse)

InitForm ==
  /\ file = NoFile
  /\ targetRole = ""
  /\ userInput = MkText("", 0)
  /\ isProcessing = FALSE
  /\ processedResume = NoOutcome
  /\ isDragOver = FALSE
  /\ currentMessageIndex = 0
  /\ fileError = ""
  /\ pending = <<>>
  /\ event = Ran("init")

(***************************************************************************)
(* Drag events, Index.tsx:71-79.                                           *)
(***************************************************************************)
handleDragOver ==
  /\ isDragOver' = TRUE
  /\ event' = Ran("handleDragOver")
  /\ UNCHANGED <<file, targetRole, userInput, isProcessing, processedResume,
                 currentMessageIndex, fileError, pending>>

handleDragLeave ==
  /\ isDragOver' = FALSE
  /\ event' = Ran("handleDragLeave")
  /\ UNCHANGED <<file, targetRole, userInput, isProcessing, processedResume,
                 currentMessageIndex, fileError, pending>>

(***************************************************************************)
(* handleDrop, Index.tsx:81-110.  droppedFiles.find(...) is the first file *)
(* of the list whose type is application/pdf.                              *)
(***************************************************************************)
FindPdf(droppedFiles) ==
  LET hits == {i \in 1..Len(droppedFiles) : droppedFiles[i].type = PDF}
  IN  IF hits = {} THEN NoFile
      ELSE droppedFiles[CHOOSE i \in hits : \A j \in hits : i <= j]

dropOutcomeClearsFile(droppedFiles) ==
  LET pdfFile == FindPdf(droppedFiles)
      error == validateFile(pdfFile)
      errorMsg == "Please upload a PDF file only."
  IN  IF pdfFile # NoFile
      THEN IF error # ""
           THEN [file |-> NoFile, fileError |-> error, validated |-> pdfFile,
                 toast |-> Toast("Invalid file", Str(error))]
           ELSE [file |-> pdfFile, fileError |-> "", validated |-> pdfFile,
                 toast |-> NoToast]
      ELSE [file |-> NoFile, fileError |-> errorMsg, validated |-> NoFile,
            toast |-> Toast("Invalid file type", Str(errorMsg))]

\* what handleDrop does with the dropped files: the file and the fileError
\* it leaves, the file it validated and the toast it raised
dropOutcome(droppedFiles) ==
  LET pdfFile == FindPdf(droppedFiles)
      error == validateFile(pdfFile)
      errorMsg == "Please upload a PDF file only."
  IN  IF pdfFile # NoFile
      THEN IF error # ""
           THEN [file |-> file, fileError |-> error, validated |-> pdfFile,
                 toast |-> Toast("Invalid file", Str(error))]
           ELSE [file |-> pdfFile, fileError |-> "", validated |-> pdfFile,
                 toast |-> NoToast]
      ELSE [file |-> file, fileError |-> errorMsg, validated |-> NoFile,
            toast |-> Toast("Invalid file type", Str(errorMsg))]

handleDrop(droppedFiles) ==
  LET outcome == dropOutcome(droppedFiles)
  IN  /\ isDragOver' = FALSE
      /\ file' = outcome.file
      /\ fileError' = outcome.fileError
      /\ event' = Validated("handleDrop", outcome.validated, outcome.toast)
      /\ UNCHANGED <<targetRole, userInput, isProcessing, processedResume,
                     currentMessageIndex, pending>>

(***************************************************************************)
(* handleFileSelect, Index.tsx:112-128.  selectedFile is NoFile when the   *)
(* change event carries no file.                                           *)
(***************************************************************************)
\* what handleFileSelect does with the selected file
selectOutcome(selectedFile) ==
  LET error == validateFile(selectedFile)
  IN  IF selectedFile # NoFile
      THEN IF error # ""
           THEN [file |-> file, fileError |-> error, validated |-> selectedFile,
                 toast |-> Toast("Invalid file", Str(error))]
           ELSE [file |-> selectedFile, fileError |-> "", validated |-> selectedFile,
                 toast |-> NoToast]
      ELSE [file |-> file, fileError |-> fileError, validated |-> NoFile,
            toast |-> NoToast]

handleFileSelect(selectedFile) ==
  LET outcome == selectOutcome(selectedFile)
  IN  /\ file' = outcome.file
      /\ fileError' = outcome.fileError
      /\ event' = Validated("handleFileSelect", outcome.validated, outcome.toast)
      /\ UNCHANGED <<targetRole, userInput, isProcessing, processedResume, isDragOver,
                     currentMessageIndex, pending>>

\* Select onValueChange={setTargetRole}, Index.tsx:373
setTargetRole(role) ==
  /\ targetRole' = role
  /\ event' = Ran("setTargetRole")
  /\ UNCHANGED <<file, userInput, isProcessing, processedResume, isDragOver,
                 currentMessageIndex, fileError, pending>>

\* Textarea onChange, Index.tsx:396.  maxLength limits what is typed, not
\* the value the handler accepts.
setUserInput(text) ==
  /\ userInput' = text
  /\ event' = Ran("setUserInput")
  /\ UNCHANGED <<file, targetRole, isProcessing, processedResume, isDragOver,
                 currentMessageIndex, fileError, pending>>

(***************************************************************************)
(* handleSubmit up to the awaited fetch, Index.tsx:159-202.  `prior` is    *)
(* the stored outcome as the caller left it (retrySubmit clears it first). *)
(***************************************************************************)
TextTooLongAt500(text) == text.length >= MaxUserInputLength

TextTooLong(text) == text.length > MaxUserInputLength

SubmitRequestNoText == MkRequest(file, targetRole, MkText("", 0))

SubmitRequest == MkRequest(file, targetRole, userInput)

handleSubmitStartKeepsOutcome(op, prior) ==
  /\ IF file = NoFile
     THEN /\ event' = Refused(op, Toast("No file selected",
                                        Str("Please select a PDF file to upload.")))
          /\ processedResume' = prior
          /\ UNCHANGED <<isProcessing, currentMessageIndex, pending>>
     ELSE IF targetRole = ""
     THEN /\ event' = Refused(op, Toast("Target role required",
                                        Str("Please select your target role.")))
          /\ processedResume' = prior
          /\ UNCHANGED <<isProcessing, currentMessageIndex, pending>>
     ELSE IF TextTooLong(userInput)
     THEN /\ event' = Refused(op, Toast("Instructions too long",
                                 Str("Additional context must be 500 characters or less.")))
          /\ processedResume' = prior
          /\ UNCHANGED <<isProcessing, currentMessageIndex, pending>>
     ELSE /\ Len(pending) < MaxPending
          /\ isProcessing' = TRUE
          /\ currentMessageIndex' = 0
          /\ processedResume' = prior
          /\ pending' = Append(pending, SubmitRequest)
          /\ event' = Issued(op, SubmitRequest)
  /\ UNCHANGED <<file, targetRole, userInput, isDragOver, fileError>>

handleSubmitStart(op, prior) ==
  /\ IF file = NoFile
     THEN /\ event' = Refused(op, Toast("No file selected",
                                        Str("Please select a PDF file to upload.")))
          /\ processedResume' = prior
          /\ UNCHANGED <<isProcessing, currentMessageIndex, pending>>
     ELSE IF targetRole = ""
     THEN /\ event' = Refused(op, Toast("Target role required",
                                        Str("Please select your target role.")))
          /\ processedResume' = prior
          /\ UNCHANGED <<isProcessing, currentMessageIndex, pending>>
     ELSE IF TextTooLong(userInput)
     THEN /\ event' = Refused(op, Toast("Instructions too long",
                                 Str("Additional context must be 500 characters or less.")))
          /\ processedResume' = prior
          /\ UNCHANGED <<isProcessing, currentMessageIndex, pending>>
     ELSE /\ Len(pending) < MaxPending
          /\ isProcessing' = TRUE
          /\ currentMessageIndex' = 0
          /\ processedResume' = NoOutcome
          /\ pending' = Append(pending, SubmitRequest)
          /\ event' = Issued(op, SubmitRequest)
  /\ UNCHANGED <<file, targetRole, userInput, isDragOver, fileError>>

\* the form's submit event, Index.tsx:301
handleSubmit == handleSubmitStart("handleSubmit", processedResume)

retrySubmitKeepsOutcome == handleSubmitStart("retrySubmit", processedResume)

\* retrySubmit, Index.tsx:259-262
retrySubmit == handleSubmitStart("retrySubmit", NoOutcome)

\* resetForm, Index.tsx:248-257
resetFormKeepsError ==
  /\ file' = NoFile
  /\ targetRole' = ""
  /\ userInput' = MkText("", 0)
  /\ processedResume' = NoOutcome
  /\ event' = Ran("resetForm")
  /\ UNCHANGED <<isProcessing, isDragOver, currentMessageIndex, pending, fileError>>

resetForm ==
  /\ file' = NoFile
  /\ targetRole' = ""
  /\ userInput' = MkText("", 0)
  /\ processedResume' = NoOutcome
  /\ fileError' = ""
  /\ event' = Ran("resetForm")
  /\ UNCHANGED <<isProcessing, isDragOver, currentMessageIndex, pending>>

\* the interval callback of the loading-message effect, Index.tsx:51-53
intervalCallback ==
  /\ currentMessageIndex' = (currentMessageIndex + 1) % NumLoadingMessages
  /\ event' = Ran("tick")
  /\ UNCHANGED <<file, targetRole, userInput, isProcessing, processedResume, isDragOver,
                 fileError, pending>>

\* the callback with the effect of Index.tsx:49-56 taken as run together
\* with the render that changed isProcessing: the interval is live exactly
\* while isProcessing
tick == isProcessing /\ intervalCallback

\* the callback of a live interval
timerTick == interval /\ intervalCallback /\ UNCHANGED interval

(***************************************************************************)
(* The loading-message effect, Index.tsx:49-56, as React runs it: after    *)
(* the render that changed isProcessing was committed, the cleanup of the  *)
(* previous run (clearInterval) and then the effect (setInterval when      *)
(* isProcessing).  It is pending while interval # isProcessing.            *)
(***************************************************************************)
useEffectLoadingMessages ==
  /\ interval # isProcessing
  /\ interval' = isProcessing
  /\ UNCHANGED formVars

(***************************************************************************)
(* handleSubmit from the settling of the fetch to its end,                 *)
(* Index.tsx:199-246, with downloadPDF, Index.tsx:130-157.  `request` is   *)
(* what the invocation captured when it started: downloadPDF is given the  *)
(* name of that file.                                                      *)
(***************************************************************************)
RemoveAt(q, i) == SubSeq(q, 1, i - 1) \o SubSeq(q, i + 1, Len(q))

SettleFailure(request, r, errorMessage) ==
  /\ processedResume' = Failure(errorMessage)
  /\ event' = Event("settle", NoFile, Toast("Processing failed", errorMessage), <<>>,
                    request, r)

SettleOutcomeDownloadFails(request, r) ==
  IF r.failed THEN SettleFailure(request, r, FetchErrorMessage)
  ELSE IF ~ResponseOk(r) THEN SettleFailure(request, r, HttpErrorMessage(r))
  ELSE IF IncludesPdf(r.contentType)
  THEN IF r.blobOk
       THEN /\ event' = Event("settle", NoFile,
                 Toast("Success!",
                       Str("Your ATS-optimized resume has been downloaded successfully!")),
                 downloadName(request.file.name), request, r)
            /\ processedResume' = Success(Undefined)
       ELSE SettleFailure(request, r, <<"Failed to download the PDF.">>)
  ELSE IF r.body.kind = "text" THEN SettleFailure(request, r, JsonErrorMessage)
  ELSE /\ processedResume' = Success(r.body)
       /\ event' = Event("settle", NoFile,
            Toast("Resume processed successfully!",
                  Str("Your resume has been optimized for ATS systems.")),
            <<>>, request, r)

SettleOutcome(request, r) ==
  IF r.failed THEN SettleFailure(request, r, FetchErrorMessage)
  ELSE IF ~ResponseOk(r) THEN SettleFailure(request, r, HttpErrorMessage(r))
  ELSE IF IncludesPdf(r.contentType)
  THEN /\ IF r.blobOk
          THEN event' = Event("settle", NoFile,
                 Toast("Success!",
                       Str("Your ATS-optimized resume has been downloaded successfully!")),
                 downloadName(request.file.name), request, r)
          ELSE event' = Event("settle", NoFile,
                 Toast("Download failed",
                       Str("Failed to download the PDF. Please try again.")),
                 <<>>, request, r)
       /\ processedResume' = Success(Undefined)
  ELSE IF r.body.kind = "text" THEN SettleFailure(request, r, JsonErrorMessage)
  ELSE /\ processedResume' = Success(r.body)
       /\ event' = Event("settle", NoFile,
            Toast("Resume processed successfully!",
                  Str("Your resume has been optimized for ATS systems.")),
            <<>>, request, r)

handleSubmitSettleNoFinally(i, r) ==
  /\ i \in 1..Len(pending)
  /\ pending' = RemoveAt(pending, i)
  /\ SettleOutcome(pending[i], r)
  /\ isProcessing' = IF r.failed \/ ~ResponseOk(r) THEN isProcessing ELSE FALSE
  /\ UNCHANGED <<file, targetRole, userInput, isDragOver, currentMessageIndex, fileError>>

handleSubmitSettle(i, r) ==
  /\ i \in 1..Len(pending)
  /\ pending' = RemoveAt(pending, i)
  /\ SettleOutcome(pending[i], r)
  /\ isProcessing' = FALSE
  /\ UNCHANGED <<file, targetRole, userInput, isDragOver, currentMessageIndex, fileError>>

(***************************************************************************)
(* What the render shows, Index.tsx:264-549: which controls exist and      *)
(* which are disabled.                                                     *)
(***************************************************************************)
\* the submit Button's disabled, Index.tsx:409
SubmitDisabledIgnoresProcessing == file = NoFile \/ targetRole = "" \/ fileError # ""

SubmitDisabled == file = NoFile \/ targetRole = "" \/ isProcessing \/ fileError # ""

\* the Reset Button, Index.tsx:425-436
ResetEnabled == (file # NoFile \/ ~processedResume.isNull) /\ ~isProcessing

\* the results section, Index.tsx:468
ResultsShown == ~processedResume.isNull /\ ~isProcessing

\* the Try Again Button, Index.tsx:491-509
RetryShown == ResultsShown /\ ~processedResume.success

\* the Process Another Resume Button, Index.tsx:472-489
ProcessAnotherShown == ResultsShown /\ processedResume.success

clickSubmit == ~SubmitDisabled /\ handleSubmit
clickRetry == RetryShown /\ retrySubmit
clickReset == ResetEnabled /\ resetForm
clickProcessAnother == ProcessAnotherShown /\ resetForm
clickStartOver == RetryShown /\ resetForm

\* the events that need no control to be enabled
FormInput ==
  \/ handleDragOver
  \/ handleDragLeave
  \/ \E droppedFiles \in DropLists : handleDrop(droppedFiles)
  \/ \E selectedFile \in Files \cup {NoFile} : handleFileSelect(selectedFile)
  \/ \E role \in TARGET_ROLES : setTargetRole(role)
  \/ \E text \in Texts : setUserInput(text)
  \/ tick
  \/ \E i \in 1..MaxPending, r \in Responses : handleSubmitSettle(i, r)

\* the form as the user drives it through its controls
FormNext ==
  \/ FormInput
  \/ clickSubmit
  \/ clickRetry
  \/ clickReset
  \/ clickProcessAnother
  \/ clickStartOver

\* the handlers as functions: handleSubmit, retrySubmit and resetForm called
\* whatever the controls show (a dispatched submit event, a test calling the
\* handler), while fewer than MaxOverlap earlier calls await their fetch
HandlerNext ==
  \/ \E selectedFile \in Files \cup {NoFile} : handleFileSelect(selectedFile)
  \/ \E role \in TARGET_ROLES : setTargetRole(role)
  \/ \E text \in Texts : setUserInput(text)
  \/ tick
  \/ \E i \in 1..MaxPending, r \in Responses : handleSubmitSettle(i, r)
  \/ Len(pending) < MaxOverlap /\ handleSubmit
  \/ Len(pending) < MaxOverlap /\ retrySubmit
  \/ resetForm

(***************************************************************************)
(* The upload relay handler, handleUpload, README.md:65-162.               *)
(*                                                                         *)
(* An inbound request is its optional file part (field `file`) and its     *)
(* optional fields target_role and user_input.  upload.single('file') is   *)
(* multer with the configuration of lines 69-81: the fileFilter runs when  *)
(* the file part begins, the size limit trips while its bytes are read, so *)
(* the type is checked before the size; multer reports a file over the     *)
(* limit with the error message "File too large".                          *)
(***************************************************************************)
\* limits.fileSize, README.md:72
fileSizeLimit == 5 * 1024 * 1024

\* the bytes of a file (req.file.buffer)
Bytes(f) == <<"bytes", f.name, f.size>>

MkInbound(f, role, input) == [file |-> f, target_role |-> role, user_input |-> input]
NoInbound == MkInbound(NoFile, None, None)

Inbounds ==
  { MkInbound(f, role, input) :
      f \in Files \cup {NoFile},
      role \in {None, "", "Backend Developer"},
      input \in {None, "", "Emphasize Kubernetes"} }

\* the outbound call, README.md:109-123
MkOutboundRenamed(url, f, role, input) ==
  [method |-> "POST", url |-> url,
   file |-> [bytes |-> Bytes(f), filename |-> <<"r","e","s","u","m","e">>,
             contentType |-> f.type],
   target_role |-> role, user_input |-> input]

MkOutbound(url, f, role, input) ==
  [method |-> "POST", url |-> url,
   file |-> [bytes |-> Bytes(f), filename |-> f.name, contentType |-> f.type],
   target_role |-> role, user_input |-> input]

\* process.env.BACKEND_URL as the handler reads it, None when unset
BackendUrls == {None, "", "http://backend:9000"}

\* the answers of the backend: those the form is given, and answers whose
\* body does not go with their content-type
BackendResponses ==
  Responses \cup
  { MkResponse(200, "OK", "application/pdf", JsonObject(None, None), TRUE),
    MkResponse(201, "Created", "application/json", JsonNull, TRUE),
    MkResponse(200, "OK", "text/plain", JsonObject("done", None), TRUE) }

\* the reply to the inbound caller: status, headers and body
Reply(st, ct, disposition, kind, value) ==
  [status |-> st, contentType |-> ct, disposition |-> disposition,
   kind |-> kind, value |-> value]

\* res.status(st).json({ error: message })
ErrorReply(st, message) == Reply(st, "application/json", <<>>, "error", message)

\* multer's error for the request, <<>> when it accepts it; README.md:69-81
multerErrorSizeFirst(req) ==
  IF req.file = NoFile THEN <<>>
  ELSE IF req.file.size > fileSizeLimit THEN <<"File too large">>
  ELSE IF req.file.type # PDF THEN <<"Only PDF files are allowed">>
  ELSE <<>>

multerError(req) ==
  IF req.file = NoFile THEN <<>>
  ELSE IF req.file.type # PDF THEN <<"Only PDF files are allowed">>
  ELSE IF req.file.size > fileSizeLimit THEN <<"File too large">>
  ELSE <<>>

\* the reply that rejects the request, README.md:87-104; NoReply when it passes
NoReply == Reply(0, None, <<>>, "none", <<>>)

relayValidationRoleFirst(req) ==
  LET err == multerError(req)
  IN  IF err # <<>>
      THEN ErrorReply(400, IF err = <<"Only PDF files are allowed">>
                           THEN <<"Only PDF files are supported">>
                           ELSE <<"File upload failed">>)
      ELSE IF ~Truthy(req.target_role) THEN ErrorReply(400, <<"Target role is required">>)
      ELSE IF req.file = NoFile THEN ErrorReply(400, <<"No file uploaded">>)
      ELSE NoReply

relayValidation(req) ==
  LET err == multerError(req)
  IN  IF err # <<>>
      THEN ErrorReply(400, IF err = <<"Only PDF files are allowed">>
                           THEN <<"Only PDF files are supported">>
                           ELSE <<"File upload failed">>)
      ELSE IF req.file = NoFile THEN ErrorReply(400, <<"No file uploaded">>)
      ELSE IF ~Truthy(req.target_role) THEN ErrorReply(400, <<"Target role is required">>)
      ELSE NoReply

\* the message of a non-success backend answer, README.md:125-134
BackendErrorMessageErrorFirst(r) ==
  LET errorMessage == <<"Backend error: ", ToString(r.status)>>
  IN  IF r.body.kind = "object"
      THEN IF Truthy(r.body.error) THEN Str(r.body.error)
           ELSE IF Truthy(r.body.detail) THEN Str(r.body.detail)
           ELSE errorMessage
      ELSE IF r.statusText # "" THEN Str(r.statusText) ELSE errorMessage

BackendErrorMessage(r) ==
  LET errorMessage == <<"Backend error: ", ToString(r.status)>>
  IN  IF r.body.kind = "object"
      THEN IF Truthy(r.body.detail) THEN Str(r.body.detail)
           ELSE IF Truthy(r.body.error) THEN Str(r.body.error)
           ELSE errorMessage
      ELSE IF r.statusText # "" THEN Str(r.statusText) ELSE errorMessage

\* the reply made from the backend's answer, README.md:125-156
relayReplyByBody(req, r) ==
  IF r.failed THEN ErrorReply(500, FetchErrorMessage)
  ELSE IF ~ResponseOk(r) THEN ErrorReply(500, BackendErrorMessage(r))
  ELSE IF r.body.kind = "text"
  THEN IF r.blobOk
       THEN Reply(200, "application/pdf",
                  <<"attachment; filename=\"resume_">> \o req.file.name \o <<"\"">>,
                  "pdf", r.body)
       ELSE ErrorReply(500, <<"Failed to read the body">>)
  ELSE Reply(200, "application/json", <<>>, "json", r.body)

relayReply(req, r) ==
  IF r.failed THEN ErrorReply(500, FetchErrorMessage)
  ELSE IF ~ResponseOk(r) THEN ErrorReply(500, BackendErrorMessage(r))
  ELSE IF IncludesPdf(r.contentType)
  THEN IF r.blobOk
       THEN Reply(200, "application/pdf",
                  <<"attachment; filename=\"resume_">> \o req.file.name \o <<"\"">>,
                  "pdf", r.body)
       ELSE ErrorReply(500, <<"Failed to read the body">>)
  ELSE IF r.body.kind = "text" THEN ErrorReply(500, JsonErrorMessage)
  ELSE Reply(200, "application/json", <<>>, "json", r.body)

VARIABLES
  relayPc,      \* "idle", "forwarded" (awaiting the backend) or "done"
  inbound,      \* the inbound request being handled
  outbound,     \* the outbound calls made for it
  replies,      \* the replies sent for it
  backendEnv,   \* process.env.BACKEND_URL as read for it, None when unset
  answered      \* what the awaited fetch settled with, NoResponse before

relayVars == <<relayPc, inbound, outbound, replies, backendEnv, answered>>

InitRelay ==
  /\ relayPc = "idle"
  /\ inbound = NoInbound
  /\ outbound = <<>>
  /\ replies = <<>>
  /\ backendEnv = None
  /\ answered = NoResponse

\* handleUpload up to the awaited fetch, README.md:83-123
relayReceive(req, backendUrl) ==
  /\ relayPc \in {"idle", "done"}
  /\ inbound' = req
  /\ backendEnv' = backendUrl
  /\ answered' = NoResponse
  /\ IF relayValidation(req) # NoReply
     THEN /\ replies' = <<relayValidation(req)>>
          /\ outbound' = <<>>
          /\ relayPc' = "done"
     ELSE /\ replies' = <<>>
          /\ outbound' = <<MkOutbound(
               <<IF Truthy(backendUrl) THEN backendUrl ELSE "http://localhost:7777",
                 "/api/upload">>,
               req.file, req.target_role,
               IF Truthy(req.user_input) THEN req.user_input ELSE "")>>
          /\ relayPc' = "forwarded"

\* handleUpload from the settled fetch, README.md:125-156
relayAnswerRetries(r) ==
  /\ relayPc = "forwarded"
  /\ IF r.failed /\ Len(outbound) < 2
     THEN /\ outbound' = Append(outbound, outbound[1])
          /\ UNCHANGED <<relayPc, replies>>
     ELSE /\ replies' = Append(replies, relayReply(inbound, r))
          /\ relayPc' = "done"
          /\ UNCHANGED outbound
  /\ answered' = r
  /\ UNCHANGED <<inbound, backendEnv>>

relayAnswerPropagates(r) ==
  /\ relayPc = "forwarded"
  /\ replies' = IF ResponseOk(r) /\ ~IncludesPdf(r.contentType) /\ r.body.kind = "text"
                THEN replies
                ELSE Append(replies, relayReply(inbound, r))
  /\ relayPc' = "done"
  /\ answered' = r
  /\ UNCHANGED <<inbound, outbound, backendEnv>>

relayAnswer(r) ==
  /\ relayPc = "forwarded"
  /\ replies' = Append(replies, relayReply(inbound, r))
  /\ relayPc' = "done"
  /\ answered' = r
  /\ UNCHANGED <<inbound, outbound, backendEnv>>

RelayNext ==
  \/ \E req \in Inbounds, backendUrl \in BackendUrls : relayReceive(req, backendUrl)
  \/ \E r \in BackendResponses : relayAnswer(r)

(***************************************************************************)
(* The earlier form variant, Index.tsx:551-911: no target role, no         *)
(* validateFile, the upload sent to http://localhost:7777/upload.  Its     *)
(* state and handlers carry the names of the source with the prefix        *)
(* `direct`.                                                               *)
(***************************************************************************)
\* the parts of one upload request, Index.tsx:626-628
MkDirectRequest(f, t) == [file |-> f, user_input |-> t]
NoDirectRequest == MkDirectRequest(NoFile, MkText("", 0))

\* what one run of a handler did that the state does not keep
DirectEvent(op, t, req, resp) == [op |-> op, toast |-> t, request |-> req, response |-> resp]
DirectRan(op) == DirectEvent(op, NoToast, NoDirectRequest, NoResponse)

VARIABLES
  directFile,             \* the held file
  directUserInput,
  directIsProcessing,
  directProcessedResume,  \* the stored outcome
  directIsDragOver,
  directPending,          \* the upload requests in flight, oldest first
  directEvent             \* what the handler that ran last did

directVars == <<directFile, directUserInput, directIsProcessing, directProcessedResume,
                directIsDragOver, directPending, directEvent>>

\* Index.tsx:565-569
InitDirect ==
  /\ directFile = NoFile
  /\ directUserInput = MkText("", 0)
  /\ directIsProcessing = FALSE
  /\ directProcessedResume = NoOutcome
  /\ directIsDragOver = FALSE
  /\ directPending = <<>>
  /\ directEvent = DirectRan("init")

\* handleDragOver, Index.tsx:573-576
directHandleDragOver ==
  /\ directIsDragOver' = TRUE
  /\ directEvent' = DirectRan("handleDragOver")
  /\ UNCHANGED <<directFile, directUserInput, directIsProcessing, directProcessedResume,
                 directPending>>

\* handleDragLeave, Index.tsx:578-581
directHandleDragLeave ==
  /\ directIsDragOver' = FALSE
  /\ directEvent' = DirectRan("handleDragLeave")
  /\ UNCHANGED <<directFile, directUserInput, directIsProcessing, directProcessedResume,
                 directPending>>

\* droppedFiles.find(...), Index.tsx:587-591: the first PDF or DOCX file
DirectFindValid(droppedFiles) ==
  LET hits == {i \in 1..Len(droppedFiles) : droppedFiles[i].type \in {PDF, DOCX}}
  IN  IF hits = {} THEN NoFile
      ELSE droppedFiles[CHOOSE i \in hits : \A j \in hits : i <= j]

\* handleDrop, Index.tsx:583-602
directHandleDrop(droppedFiles) ==
  LET validFile == DirectFindValid(droppedFiles)
  IN  /\ directIsDragOver' = FALSE
      /\ IF validFile # NoFile
         THEN /\ directFile' = validFile
              /\ directEvent' = DirectRan("handleDrop")
         ELSE /\ directEvent' = DirectEvent("handleDrop",
                   Toast("Invalid file type", Str("Please upload a PDF or DOCX file.")),
                   NoDirectRequest, NoResponse)
              /\ UNCHANGED directFile
      /\ UNCHANGED <<directUserInput, directIsProcessing, directProcessedResume,
                     directPending>>

\* handleFileSelect, Index.tsx:604-609
directHandleFileSelect(selectedFile) ==
  /\ IF selectedFile # NoFile THEN directFile' = selectedFile ELSE UNCHANGED directFile
  /\ directEvent' = DirectRan("handleFileSelect")
  /\ UNCHANGED <<directUserInput, directIsProcessing, directProcessedResume,
                 directIsDragOver, directPending>>

\* Textarea onChange, Index.tsx:800
directSetUserInput(text) ==
  /\ directUserInput' = text
  /\ directEvent' = DirectRan("setUserInput")
  /\ UNCHANGED <<directFile, directIsProcessing, directProcessedResume, directIsDragOver,
                 directPending>>

\* handleSubmit up to the awaited fetch, Index.tsx:611-633
directHandleSubmit ==
  /\ Len(directPending) < MaxPending
  /\ IF directFile = NoFile
     THEN /\ directEvent' = DirectEvent("handleSubmit",
               Toast("No file selected",
                     Str("Please select a PDF or DOCX file to upload.")),
               NoDirectRequest, NoResponse)
          /\ UNCHANGED <<directIsProcessing, directPending>>
     ELSE /\ directIsProcessing' = TRUE
          /\ directPending' = Append(directPending,
                                     MkDirectRequest(directFile, directUserInput))
          /\ directEvent' = DirectEvent("handleSubmit", NoToast,
                                        MkDirectRequest(directFile, directUserInput),
                                        NoResponse)
  /\ UNCHANGED <<directFile, directUserInput, directProcessedResume, directIsDragOver>>

\* handleSubmit from the settling of the fetch to its end, Index.tsx:630-661
directHandleSubmitSettle(i, r) ==
  LET failure(message) ==
        /\ directProcessedResume' = Failure(message)
        /\ directEvent' = DirectEvent("settle",
             Toast("Processing failed",
                   Str("Failed to process your resume. Please try again.")),
             directPending[i], r)
  IN  /\ i \in 1..Len(directPending)
      /\ directPending' = RemoveAt(directPending, i)
      /\ IF r.failed THEN failure(FetchErrorMessage)
         ELSE IF ~ResponseOk(r)
         THEN failure(<<"HTTP error! status: ", ToString(r.status)>>)
         ELSE IF r.body.kind = "text" THEN failure(JsonErrorMessage)
         ELSE /\ directProcessedResume' = Success(r.body)
              /\ directEvent' = DirectEvent("settle",
                   Toast("Resume processed successfully!",
                         Str("Your resume has been converted to JSON format.")),
                   directPending[i], r)
      /\ directIsProcessing' = FALSE
      /\ UNCHANGED <<directFile, directUserInput, directIsDragOver>>

\* resetForm, Index.tsx:696-703
directResetForm ==
  /\ directFile' = NoFile
  /\ directUserInput' = MkText("", 0)
  /\ directProcessedResume' = NoOutcome
  /\ directEvent' = DirectRan("resetForm")
  /\ UNCHANGED <<directIsProcessing, directIsDragOver, directPending>>

\* the submit Button's disabled, Index.tsx:809
DirectSubmitDisabled == directFile = NoFile \/ directIsProcessing

\* the Reset Button, Index.tsx:825-834: rendered with a file or an outcome,
\* never disabled
DirectResetEnabled == directFile # NoFile \/ ~directProcessedResume.isNull

directClickSubmit == ~DirectSubmitDisabled /\ directHandleSubmit
directClickReset == DirectResetEnabled /\ directResetForm

\* the earlier variant as the user drives it through its controls
DirectNext ==
  \/ directHandleDragOver
  \/ directHandleDragLeave
  \/ \E droppedFiles \in DropLists : directHandleDrop(droppedFiles)
  \/ \E selectedFile \in Files \cup {NoFile} : directHandleFileSelect(selectedFile)
  \/ \E text \in Texts : directSetUserInput(text)
  \/ \E i \in 1..MaxPending, r \in Responses : directHandleSubmitSettle(i, r)
  \/ directClickSubmit
  \/ directClickReset

vars == <<formVars, attempt, interval, relayVars, directVars>>

Init == InitForm /\ attempt = NoRequest /\ interval = FALSE /\ InitRelay /\ InitDirect

Next == FormNext /\ UNCHANGED <<attempt, interval, relayVars, directVars>>

Spec == Init /\ [][Next]_vars

HandlerSpec ==
  Init /\ [][HandlerNext /\ UNCHANGED <<attempt, interval, relayVars, directVars>>]_vars

\* the form as the user drives it, files coming through the picker, with
\* the request of the latest started submission kept in `attempt`
RetryNext ==
  /\ \/ \E selectedFile \in Files \cup {NoFile} : handleFileSelect(selectedFile)
     \/ \E role \in TARGET_ROLES : setTargetRole(role)
     \/ \E text \in Texts : setUserInput(text)
     \/ tick
     \/ \E i \in 1..MaxPending, r \in Responses : handleSubmitSettle(i, r)
     \/ clickSubmit
     \/ clickRetry
     \/ clickReset
     \/ clickProcessAnother
     \/ clickStartOver
  /\ attempt' = IF event'.op \in {"handleSubmit", "retrySubmit"} /\ event'.request # NoRequest
                THEN event'.request
                ELSE attempt
  /\ UNCHANGED <<interval, relayVars, directVars>>

RetrySpec == Init /\ [][RetryNext]_vars

\* the relay handler alone, the form idle
RelaySpec ==
  Init /\ [][RelayNext /\ UNCHANGED <<formVars, attempt, interval, directVars>>]_vars

\* the earlier form variant alone
DirectSpec ==
  Init /\ [][DirectNext /\ UNCHANGED <<formVars, attempt, interval, relayVars>>]_vars

(***************************************************************************)
(* The role-requiring form with its loading-message timer, files coming    *)
(* through the picker.  A user event is handled once the pending effects   *)
(* have run; the continuation of an awaited fetch and the callback of a    *)
(* live interval are tasks of their own and run whenever they are due,     *)
(* also between a render and its effects.                                  *)
(***************************************************************************)
TimerNext ==
  /\ \/ /\ interval = isProcessing
        /\ \/ \E selectedFile \in Files \cup {NoFile} : handleFileSelect(selectedFile)
           \/ \E role \in TARGET_ROLES : setTargetRole(role)
           \/ \E text \in Texts : setUserInput(text)
           \/ clickSubmit
           \/ clickRetry
           \/ clickReset
           \/ clickProcessAnother
           \/ clickStartOver
        /\ UNCHANGED interval
     \/ /\ \E i \in 1..MaxPending, r \in Responses : handleSubmitSettle(i, r)
        /\ UNCHANGED interval
     \/ timerTick
     \/ useEffectLoadingMessages
  /\ UNCHANGED <<attempt, relayVars, directVars>>

TimerSpec == Init /\ [][TimerNext]_vars

(***************************************************************************)
(* The role-requiring form whose network calls settle: files come through  *)
(* the picker, and the fetch awaited at Index.tsx:199 resolves or rejects, *)
(* so that the continuation of a submission in flight eventually runs.     *)
(***************************************************************************)
fetchSettles ==
  /\ \E i \in 1..MaxPending, r \in Responses : handleSubmitSettle(i, r)
  /\ UNCHANGED <<attempt, interval, relayVars, directVars>>

LiveNext ==
  \/ /\ \/ \E selectedFile \in Files \cup {NoFile} : handleFileSelect(selectedFile)
        \/ \E role \in TARGET_ROLES : setTargetRole(role)
        \/ \E text \in Texts : setUserInput(text)
        \/ tick
        \/ clickSubmit
        \/ clickRetry
        \/ clickReset
        \/ clickProcessAnother
        \/ clickStartOver
     /\ UNCHANGED <<attempt, interval, relayVars, directVars>>
  \/ fetchSettles

LiveSpec == Init /\ [][LiveNext]_vars /\ WF_vars(fetchSettles)


(***************************************************************************)
(* Properties of the form.                                                 *)
(***************************************************************************)
SubmitOps == {"handleSubmit", "retrySubmit"}
SelectOps == {"handleFileSelect", "handleDrop"}

\* C1: validateFile is a function of the file's media type and size alone:
\* whenever a handler has validated a file, the form shows "Only PDF files
\* are supported." if the type is not application/pdf (whatever the size),
\* otherwise "File size must be less than 5MB." if the size is over
\* 5,242,880, and otherwise no error, the file being held; the same file
\* gives the same result in every state it is offered in.
C1_ValidateFile ==
  (event.op \in SelectOps /\ event.file # NoFile) =>
    LET f == event.file
        want == IF f.type # "application/pdf" THEN "Only PDF files are supported."
                ELSE IF f.size > 5242880 THEN "File size must be less than 5MB."
                ELSE ""
    IN  IF want = ""
        THEN file = f /\ fileError = "" /\ event.toast = NoToast
        ELSE fileError = want /\ event.toast = Toast("Invalid file", <<want>>)

\* a PDF of exactly 5,242,880 bytes was offered through the picker and is held
C1_Witness ==
  /\ event.op = "handleFileSelect"
  /\ event.file.type = "application/pdf"
  /\ event.file.size = 5242880
  /\ file = event.file
  /\ fileError = ""

\* C2: every upload request the form issues carries a file of type
\* application/pdf and of at most 5,242,880 bytes, a non-empty target_role
\* and a user_input of at most 500 characters.
C2_RequestsAreValid ==
  /\ \A i \in 1..Len(pending) :
       /\ pending[i].file.type = "application/pdf"
       /\ pending[i].file.size <= 5242880
       /\ pending[i].target_role # ""
       /\ pending[i].user_input.length <= 500
  /\ (event.op \in SubmitOps /\ event.request # NoRequest) =>
       /\ event.request.file.type = "application/pdf"
       /\ event.request.file.size <= 5242880
       /\ event.request.target_role # ""
       /\ event.request.user_input.length <= 500

\* a request is in flight while the form shows a rejected file
C2_Witness ==
  /\ Len(pending) = 1
  /\ fileError = "Only PDF files are supported."
  /\ pending[1].file.size = 5242880
  /\ pending[1].user_input.length = 500

\* C3: handleSubmit refuses exactly when no file is held, the target role is
\* empty or user_input is longer than 500 characters; the first failing
\* check, in that order, decides the notification; a refused submit issues
\* no request and leaves isProcessing, the stored outcome and the
\* loading-message index unchanged.
C3_RefusedSubmit ==
  [][event'.op = "handleSubmit" =>
       LET refuse == file = NoFile \/ targetRole = "" \/ userInput.length > 500
           title == IF file = NoFile THEN "No file selected"
                    ELSE IF targetRole = "" THEN "Target role required"
                    ELSE "Instructions too long"
       IN  IF refuse
           THEN /\ event'.toast.title = title
                /\ event'.request = NoRequest
                /\ UNCHANGED <<pending, isProcessing, processedResume, currentMessageIndex>>
           ELSE /\ event'.toast = NoToast
                /\ event'.request # NoRequest
    ]_vars

\* a submit with a valid file held and no role was refused while an earlier
\* outcome is stored
C3_Witness ==
  /\ event.op = "handleSubmit"
  /\ event.toast.title = "Target role required"
  /\ file # NoFile
  /\ targetRole = ""
  /\ ~processedResume.isNull

\* C4: a handleSubmit that passes its guards sets isProcessing, clears the
\* stored outcome, sets the loading-message index to 0 and issues exactly
\* one request, whose parts are the held file, the current target_role and
\* the current user_input; the file stays held, and the settling of that
\* request issues no other.
C4_SubmitStarts ==
  [][/\ (event'.op = "handleSubmit" /\ file # NoFile /\ targetRole # ""
           /\ userInput.length <= 500) =>
          /\ isProcessing'
          /\ processedResume' = NoOutcome
          /\ currentMessageIndex' = 0
          /\ pending' = Append(pending, MkRequest(file, targetRole, userInput))
          /\ event'.request = MkRequest(file, targetRole, userInput)
          /\ file' = file
     /\ event'.op \notin SubmitOps => Len(pending') <= Len(pending)
    ]_vars

\* a submission with a 500-character text has started
C4_Witness ==
  /\ event.op = "handleSubmit"
  /\ event.request # NoRequest
  /\ event.request.user_input.length = 500
  /\ pending = <<event.request>>
  /\ isProcessing

\* C5: at most one upload request is in flight, and while one is, the form
\* is processing, the submit control is disabled and the retry control is
\* not shown.
C5_OneInFlight ==
  /\ Len(pending) <= 1
  /\ pending # <<>> => isProcessing /\ SubmitDisabled /\ ~RetryShown

\* a file was selected while a request is in flight and everything else
\* the submit control needs is in place
C5_Witness ==
  /\ Len(pending) = 1
  /\ event.op = "handleFileSelect"
  /\ file # NoFile
  /\ targetRole # ""
  /\ fileError = ""


\* C6 as claimed: retry issues exactly one request, which carries the file,
\* target_role and user_input of the failed attempt, and resets the
\* loading-message index, whatever was selected or edited since the failure.
C6_RetryReplaysAttempt ==
  [][event'.op = "retrySubmit" =>
       /\ event'.request = attempt
       /\ pending' = Append(pending, attempt)
       /\ currentMessageIndex' = 0
    ]_vars

\* C6 (amended): retry is pressed on a stored failure and clears it; if the
\* held user_input has at most 500 characters it issues exactly one request,
\* carrying the file, target_role and user_input held when retry is pressed
\* (those of the failed attempt when nothing was changed since), and resets
\* the loading-message index to 0; otherwise it issues none.
C6_RetrySubmitsHeld ==
  [][event'.op = "retrySubmit" =>
       /\ ~processedResume.isNull /\ ~processedResume.success
       /\ attempt # NoRequest
       /\ processedResume' = NoOutcome
       /\ IF userInput.length <= 500
          THEN /\ event'.request = MkRequest(file, targetRole, userInput)
               /\ pending' = Append(pending, MkRequest(file, targetRole, userInput))
               /\ currentMessageIndex' = 0
               /\ isProcessing'
               /\ (file = attempt.file /\ targetRole = attempt.target_role
                     /\ userInput = attempt.user_input) => event'.request = attempt
          ELSE /\ event'.request = NoRequest
               /\ pending' = pending
    ]_vars

\* a retry has issued its request
C6_Witness ==
  /\ event.op = "retrySubmit"
  /\ event.request # NoRequest
  /\ pending = <<event.request>>
  /\ attempt = event.request
  /\ currentMessageIndex = 0
  /\ isProcessing

\* the message of a non-OK status: "HTTP error! status: <status>"
C7_Default(r) == <<"HTTP error! status: ", ToString(r.status)>>

\* C7 as claimed: a non-OK response stores a failure whose message is the
\* JSON body's detail field if present, else its error field, else the
\* default; for a body that is not JSON, the status text, else the default.
C7_MessageIfPresent ==
  (event.op = "settle" /\ ~event.response.failed /\ event.response.status \notin 200..299) =>
    LET r == event.response
        message == IF r.body.kind = "text"
                   THEN IF r.statusText # "" THEN <<r.statusText>> ELSE C7_Default(r)
                   ELSE IF r.body.detail # None THEN <<r.body.detail>>
                   ELSE IF r.body.error # None THEN <<r.body.error>>
                   ELSE C7_Default(r)
    IN  /\ processedResume = Failure(message)
        /\ ~isProcessing
        /\ RetryShown

\* C7 (amended): a non-OK response, a rejected fetch and an OK response
\* whose body cannot be parsed each store a failure, end the processing and
\* show retry.  For a non-OK response whose body is a JSON object the
\* message is the detail field if it is a non-empty string, else the error
\* field if it is a non-empty string, else the default; for a body that is
\* not JSON or is the JSON value null it is the status text if non-empty,
\* else the default.
C7_MessageIfNonEmpty ==
  (event.op = "settle") =>
    LET r == event.response
        message == IF r.body.kind = "object"
                   THEN IF r.body.detail \notin {None, ""} THEN <<r.body.detail>>
                        ELSE IF r.body.error \notin {None, ""} THEN <<r.body.error>>
                        ELSE C7_Default(r)
                   ELSE IF r.statusText # "" THEN <<r.statusText>> ELSE C7_Default(r)
        stored == /\ ~processedResume.isNull
                  /\ ~processedResume.success
                  /\ processedResume.data = Undefined
                  /\ event.toast = Toast("Processing failed", processedResume.error)
                  /\ ~isProcessing
                  /\ RetryShown
    IN  /\ r.failed => stored /\ processedResume.error = <<"Failed to fetch">>
        /\ (~r.failed /\ r.status \notin 200..299) =>
             stored /\ processedResume.error = message
        /\ (~r.failed /\ r.status \in 200..299 /\ ~IncludesPdf(r.contentType)
              /\ r.body.kind = "text") => stored

\* a 500 with body {"detail": "parser failure"} has stored "parser failure"
C7_Witness ==
  /\ event.op = "settle"
  /\ event.response.status = 500
  /\ event.response.body = JsonObject("parser failure", None)
  /\ processedResume = Failure(<<"parser failure">>)
  /\ RetryShown

\* a file name with its extension stripped: the part before the last dot,
\* when something follows that dot
C8_Stem(name) ==
  LET dots == {k \in 1..Len(name) : name[k] = "."}
      last == CHOOSE k \in dots : \A j \in dots : j <= k
  IN  IF dots = {} THEN name
      ELSE IF last = Len(name) THEN name
      ELSE SubSeq(name, 1, last - 1)

\* C8 as claimed: an OK PDF response triggers a file save named
\* resume_<base name>.pdf and stores {success: true} with no payload.
C8_SaveNamePlain ==
  (event.op = "settle" /\ ~event.response.failed /\ event.response.status \in 200..299
     /\ IncludesPdf(event.response.contentType) /\ event.response.blobOk) =>
    /\ event.download = <<"resume_">> \o C8_Stem(event.request.file.name) \o <<".pdf">>
    /\ processedResume = Success(Undefined)

\* C8 (amended): an OK PDF response whose body can be saved triggers a file
\* save named resume_<base name>_optimized.pdf, the base name being the
\* uploaded file's name with its extension stripped; with or without the
\* save, {success: true} is stored with no payload.  An OK response that is
\* not a PDF and whose body is JSON stores that value as the payload and
\* saves nothing.
C8_SaveNameOptimized ==
  (event.op = "settle" /\ ~event.response.failed /\ event.response.status \in 200..299) =>
    LET r == event.response
    IN  /\ (IncludesPdf(r.contentType) /\ r.blobOk) =>
             /\ event.download =
                  <<"resume_">> \o C8_Stem(event.request.file.name) \o <<"_optimized.pdf">>
             /\ processedResume = Success(Undefined)
        /\ (IncludesPdf(r.contentType) /\ ~r.blobOk) =>
             /\ event.download = <<>>
             /\ processedResume = Success(Undefined)
        /\ (~IncludesPdf(r.contentType) /\ r.body.kind # "text") =>
             /\ event.download = <<>>
             /\ processedResume = Success(r.body)

\* the response to the upload of my.cv.pdf was a PDF and was saved
C8_Witness ==
  /\ event.op = "settle"
  /\ event.response.contentType = "application/pdf"
  /\ event.request.file.name = <<"m", "y", ".", "c", "v", ".", "p", "d", "f">>
  /\ event.download = <<"resume_", "m", "y", ".", "c", "v", "_optimized.pdf">>
  /\ processedResume = Success(Undefined)

\* C9: while the form shows a rejected file (fileError is not empty), no
\* step issues an upload request, by submit or by retry.
C9_NoRequestAfterRejection ==
  [][fileError # "" => Len(pending') <= Len(pending)]_vars


(***************************************************************************)
(* Properties of the relay handler.                                        *)
(***************************************************************************)
\* the rejection the claim states for a request, <<>> when it states none:
\* the file's type, then `tooLarge` for its size, then a missing file, then
\* a missing target_role
C10_Rejection(req, tooLarge) ==
  IF req.file # NoFile /\ req.file.type # "application/pdf"
  THEN <<"Only PDF files are supported">>
  ELSE IF req.file # NoFile /\ req.file.size > 5242880 THEN <<tooLarge>>
  ELSE IF req.file = NoFile THEN <<"No file uploaded">>
  ELSE IF req.target_role \in {None, ""} THEN <<"Target role is required">>
  ELSE <<>>

C10_Rejects(tooLarge) ==
  relayPc # "idle" =>
    LET message == C10_Rejection(inbound, tooLarge)
    IN  IF message # <<>>
        THEN /\ relayPc = "done"
             /\ outbound = <<>>
             /\ Len(replies) = 1
             /\ replies[1].status = 400
             /\ replies[1].kind = "error"
             /\ replies[1].value = message
        ELSE Len(outbound) = 1

\* C10 as claimed: an invalid inbound request is rejected before forwarding
\* with status 400 and body {error: message}: "Only PDF files are
\* supported" for a file that is not a PDF, "File too large" for a file over
\* 5 MiB, "No file uploaded" without a file, "Target role is required"
\* without a target_role, checked in that order.
C10_RejectsTooLarge == C10_Rejects("File too large")

\* C10 (amended): as claimed, except that a PDF over 5 MiB is rejected with
\* the message "File upload failed".
C10_RejectsUploadFailed == C10_Rejects("File upload failed")

\* a PDF of 5,242,881 bytes sent with a role was rejected and not forwarded
C10_Witness ==
  /\ relayPc = "done"
  /\ inbound.file.type = "application/pdf"
  /\ inbound.file.size = 5242881
  /\ inbound.target_role = "Backend Developer"
  /\ outbound = <<>>
  /\ replies = <<ErrorReply(400, <<"File upload failed">>)>>

(***************************************************************************)
(* Properties of the relay handler.                                        *)
(***************************************************************************)
\* an inbound request that passes the handler's validation: a PDF file of
\* at most 5 MiB and a non-empty target_role
C11_Passes(req) ==
  /\ req.file # NoFile
  /\ req.file.type = "application/pdf"
  /\ req.file.size <= 5242880
  /\ req.target_role \notin {None, ""}

\* C11: the handler makes exactly one outbound call for an inbound request
\* that passes validation and none for one that fails it, and never a
\* second call, whatever the backend answers.
C11_OneOutboundCall ==
  relayPc # "idle" => Len(outbound) = (IF C11_Passes(inbound) THEN 1 ELSE 0)

\* the backend call of a valid request failed and was answered with a 500
\* after one outbound call
C11_Witness ==
  /\ relayPc = "done"
  /\ C11_Passes(inbound)
  /\ answered.failed
  /\ Len(outbound) = 1
  /\ Len(replies) = 1
  /\ replies[1].status = 500

\* the outbound request the claim describes, the backend base URL being
\* the default for the values of BACKEND_URL in `defaulted`
C12_Outbound(defaulted) ==
  [method |-> "POST",
   url |-> <<IF backendEnv \in defaulted THEN "http://localhost:7777" ELSE backendEnv,
             "/api/upload">>,
   file |-> [bytes |-> <<"bytes", inbound.file.name, inbound.file.size>>,
             filename |-> inbound.file.name,
             contentType |-> inbound.file.type],
   target_role |-> inbound.target_role,
   user_input |-> IF inbound.user_input = None THEN "" ELSE inbound.user_input]

\* C12 as claimed: for an inbound request that passes validation the
\* outbound request is a POST to <BACKEND_URL>/api/upload, BACKEND_URL
\* being http://localhost:7777 when unset, with the inbound file bytes,
\* filename and media type, the inbound target_role, and the inbound
\* user_input or the empty string when it was not supplied.
C12_OutboundDefaultWhenUnset ==
  (relayPc # "idle" /\ C11_Passes(inbound)) => outbound = <<C12_Outbound({None})>>

\* C12 (amended): as claimed, BACKEND_URL being http://localhost:7777 when
\* unset or set to the empty string.
C12_OutboundDefaultWhenEmpty ==
  (relayPc # "idle" /\ C11_Passes(inbound)) => outbound = <<C12_Outbound({None, ""})>>

\* a valid request without user_input was forwarded to the configured
\* backend with an empty user_input
C12_Witness ==
  /\ relayPc = "forwarded"
  /\ C11_Passes(inbound)
  /\ inbound.user_input = None
  /\ backendEnv = "http://backend:9000"
  /\ Len(outbound) = 1
  /\ outbound[1].url = <<"http://backend:9000", "/api/upload">>
  /\ outbound[1].user_input = ""
  /\ outbound[1].file.filename = inbound.file.name

\* C13: on a success status of the backend the reply is decided by the
\* backend content-type alone: for application/pdf, when the body can be
\* read, the body unchanged with Content-Type application/pdf and
\* Content-Disposition attachment; filename="resume_<original filename>";
\* for another content-type, when the body is JSON, that JSON value
\* unchanged.
C13_ReplyByContentType ==
  (relayPc = "done" /\ outbound # <<>> /\ ~answered.failed
     /\ answered.status \in 200..299) =>
    /\ Len(replies) = 1
    /\ IF answered.contentType \in {"application/pdf", "application/pdf; charset=binary"}
       THEN answered.blobOk =>
              replies[1] = [status |-> 200, contentType |-> "application/pdf",
                            disposition |-> <<"attachment; filename=\"resume_">>
                                              \o inbound.file.name \o <<"\"">>,
                            kind |-> "pdf", value |-> answered.body]
       ELSE answered.body.kind # "text" =>
              replies[1] = [status |-> 200, contentType |-> "application/json",
                            disposition |-> <<>>,
                            kind |-> "json", value |-> answered.body]

\* the backend answered application/pdf with a body that is JSON, and the
\* body was passed on as a PDF named after the uploaded my.cv.pdf
C13_Witness ==
  /\ relayPc = "done"
  /\ answered.status = 200
  /\ answered.contentType = "application/pdf"
  /\ answered.body.kind = "object"
  /\ inbound.file.name = <<"m","y",".","c","v",".","p","d","f">>
  /\ Len(replies) = 1
  /\ replies[1].kind = "pdf"
  /\ replies[1].disposition =
       <<"attachment; filename=\"resume_", "m","y",".","c","v",".","p","d","f", "\"">>

C14_Default(r) == <<"Backend error: ", ToString(r.status)>>

\* C14 as claimed: a non-success backend answer is replied to with a 5xx
\* status and body {error: message}, the message being the JSON body's
\* detail field if present, else its error field, else "Backend error:
\* <status>", and the status text for a body that is not JSON; a failed
\* outbound call is replied to with a 5xx and an {error} body.
C14_MessageIfPresent ==
  (relayPc = "done" /\ outbound # <<>> /\ (answered.failed \/ answered.status \notin 200..299)) =>
    LET r == answered
        message == IF r.body.kind = "text" THEN <<r.statusText>>
                   ELSE IF r.body.detail # None THEN <<r.body.detail>>
                   ELSE IF r.body.error # None THEN <<r.body.error>>
                   ELSE C14_Default(r)
    IN  /\ Len(replies) = 1
        /\ replies[1].status \in 500..599
        /\ replies[1].kind = "error"
        /\ ~r.failed => replies[1].value = message

\* C14 (amended): as claimed, the message of a non-success answer being,
\* for a JSON object body, the detail field if it is a non-empty string,
\* else the error field if it is a non-empty string, else "Backend error:
\* <status>", and for a body that is not JSON or is the JSON value null the
\* status text if non-empty, else "Backend error: <status>"; the status of
\* the reply is 500.
C14_MessageIfNonEmpty ==
  (relayPc = "done" /\ outbound # <<>> /\ (answered.failed \/ answered.status \notin 200..299)) =>
    LET r == answered
        message == IF r.body.kind = "object"
                   THEN IF r.body.detail \notin {None, ""} THEN <<r.body.detail>>
                        ELSE IF r.body.error \notin {None, ""} THEN <<r.body.error>>
                        ELSE C14_Default(r)
                   ELSE IF r.statusText # "" THEN <<r.statusText>> ELSE C14_Default(r)
    IN  /\ Len(replies) = 1
        /\ replies[1].status = 500
        /\ replies[1].contentType = "application/json"
        /\ replies[1].kind = "error"
        /\ r.failed => replies[1].value = <<"Failed to fetch">>
        /\ ~r.failed => replies[1].value = message

\* the backend answered 500 with an empty detail and an error field, and
\* the reply carries the error field
C14_Witness ==
  /\ relayPc = "done"
  /\ answered.status = 500
  /\ answered.body = JsonObject("", "bad gateway")
  /\ replies = <<ErrorReply(500, <<"bad gateway">>)>>

\* C15: an inbound request whose handling has ended has exactly one reply,
\* none before, on every path; a reply that is not the passed-on answer
\* of the backend is a 400 or a 500 with an {error: string} body, the 500
\* covering an exception thrown while relaying.
C15_ExactlyOneReply ==
  /\ relayPc = "done" =>
       /\ Len(replies) = 1
       /\ replies[1].status \in {200, 400, 500}
       /\ replies[1].status # 200 =>
            /\ replies[1].kind = "error"
            /\ replies[1].contentType = "application/json"
            /\ replies[1].value # <<>>
       /\ (outbound # <<>> /\ ~answered.failed /\ answered.status \in 200..299
             /\ IF answered.contentType \in {"application/pdf",
                                              "application/pdf; charset=binary"}
                THEN ~answered.blobOk
                ELSE answered.body.kind = "text") => replies[1].status = 500
  /\ relayPc # "done" => replies = <<>>

\* the backend answered 200 with a body that is not JSON and the reply is
\* the one 500
C15_Witness ==
  /\ relayPc = "done"
  /\ answered.status = 200
  /\ answered.contentType = None
  /\ answered.body.kind = "text"
  /\ Len(replies) = 1
  /\ replies[1].status = 500
  /\ replies[1].kind = "error"

(***************************************************************************)
(* Properties of reset, of the loading-message timer and of the two form   *)
(* variants.                                                               *)
(***************************************************************************)
\* C16: resetForm sets the held file to none, the target role, the
\* user_input and fileError to empty and the stored outcome to none in one
\* step, whatever the state before, and leaves isProcessing and the
\* loading-message index (and the drag flag and the requests in flight)
\* unchanged.
C16_ResetClears ==
  [][event'.op = "resetForm" =>
       /\ file' = NoFile
       /\ targetRole' = ""
       /\ userInput' = [chars |-> "", length |-> 0]
       /\ processedResume'.isNull
       /\ fileError' = ""
       /\ isProcessing' = isProcessing
       /\ currentMessageIndex' = currentMessageIndex
       /\ isDragOver' = isDragOver
       /\ pending' = pending]_vars

\* resetForm ran during a submission whose loading message had advanced:
\* the form is cleared, the submission and the index are as they were
C16_Witness ==
  /\ event.op = "resetForm"
  /\ isProcessing
  /\ currentMessageIndex = 3
  /\ pending # <<>>
  /\ file = NoFile
  /\ targetRole = ""
  /\ fileError = ""
  /\ processedResume.isNull

\* C17: in every reachable state with a submission in progress every
\* control that calls resetForm is disabled or not rendered, in the
\* role-requiring form and in the earlier form variant, so that no request
\* is in flight for a form that was reset.
C17_NoResetWhileProcessing ==
  /\ isProcessing => (~ResetEnabled /\ ~ProcessAnotherShown /\ ~RetryShown)
  /\ directIsProcessing => ~DirectResetEnabled
  /\ directPending # <<>> => directFile # NoFile

\* the role-requiring form's share of C17: no resetForm step starts in a
\* state with a submission in progress
C17_RoleFormNoResetWhileProcessing ==
  [][event'.op = "resetForm" /\ event' # event => ~isProcessing]_vars

\* C20: the earlier form variant sends only files the role-requiring form
\* accepts: every request in flight carries a file of type application/pdf
\* of at most 5,242,880 bytes.
C20_DirectRequestsAreValid ==
  \A i \in 1..Len(directPending) :
    /\ directPending[i].file.type = "application/pdf"
    /\ directPending[i].file.size <= 5242880

\* C18: the loading-message timer runs only during a submission in
\* flight: a tick moves the index from i to (i+1) mod 5 within 0..4, and
\* no tick changes the index once the submission has completed.
C18_TicksOnlyWhileProcessing ==
  [][(event'.op = "tick" /\ currentMessageIndex' # currentMessageIndex) =>
       /\ isProcessing
       /\ pending # <<>>
       /\ currentMessageIndex \in 0..4
       /\ currentMessageIndex' = (currentMessageIndex + 1) % 5]_vars

\* the part of C18 that holds with the effect run after the render: the
\* index stays within 0..4, and an interval is live after a completed
\* submission only until the pending effect has run
C18_IndexInRange ==
  /\ currentMessageIndex \in 0..4
  /\ (interval /\ ~isProcessing) => ENABLED useEffectLoadingMessages

\* C19 as claimed: from the same form state, offering a file by
\* drag-and-drop and offering it through the file picker leave the same
\* held file and the same fileError, for every file.
C19_SameFileAndError ==
  \A f \in Files :
    /\ dropOutcome(<<f>>).file = selectOutcome(f).file
    /\ dropOutcome(<<f>>).fileError = selectOutcome(f).fileError

\* C19 (amended): from the same form state, drag-and-drop and the file
\* picker leave the same held file for every file, and the same fileError
\* for every file of type application/pdf (empty when it is accepted, the
\* size message when it is over 5,242,880 bytes); for a file of another
\* type both leave the held file as it was and set a fileError, "Please
\* upload a PDF file only." on a drop and "Only PDF files are supported."
\* through the picker.
C19_SameFileOwnMessage ==
  \A f \in Files :
    /\ dropOutcome(<<f>>).file = selectOutcome(f).file
    /\ f.type = "application/pdf" =>
         /\ dropOutcome(<<f>>).fileError = selectOutcome(f).fileError
         /\ dropOutcome(<<f>>).fileError =
              (IF f.size > 5242880 THEN "File size must be less than 5MB." ELSE "")
         /\ f.size <= 5242880 => dropOutcome(<<f>>).file = f
    /\ f.type # "application/pdf" =>
         /\ dropOutcome(<<f>>).file = file
         /\ dropOutcome(<<f>>).fileError = "Please upload a PDF file only."
         /\ selectOutcome(f).fileError = "Only PDF files are supported."

\* files none of which is a PDF were dropped on a form holding a file: the
\* held file stayed and fileError is the message of the drop
C19_Witness ==
  /\ event.op = "handleDrop"
  /\ event.file = NoFile
  /\ file # NoFile
  /\ fileError = "Please upload a PDF file only."

(***************************************************************************)
(* Properties of the outcome of a submission.                              *)
(***************************************************************************)
\* C21: a failure to save the returned PDF is reported only by a
\* notification: after an OK application/pdf response the stored outcome
\* is {success: true} without payload and isProcessing is false whether the
\* save worked or not; a save that failed raised the "Download failed"
\* notification and saved nothing.
C21_DownloadFailureKeepsOutcome ==
  (event.op = "settle" /\ ~event.response.failed /\ event.response.status \in 200..299
     /\ event.response.contentType \in {"application/pdf",
                                        "application/pdf; charset=binary"}) =>
    /\ processedResume = [isNull |-> FALSE, success |-> TRUE, data |-> Undefined,
                          error |-> <<>>]
    /\ ~isProcessing
    /\ event.response.blobOk => event.download # <<>>
    /\ ~event.response.blobOk =>
         /\ event.download = <<>>
         /\ event.toast = [title |-> "Download failed",
                           description |-> <<"Failed to download the PDF. Please try again.">>]

\* the body of an OK application/pdf response could not be saved, and the
\* outcome stored is the success without payload
C21_Witness ==
  /\ event.op = "settle"
  /\ event.response.status = 200
  /\ event.response.contentType = "application/pdf"
  /\ ~event.response.blobOk
  /\ event.toast.title = "Download failed"
  /\ processedResume = Success(Undefined)
  /\ ~isProcessing

\* C22: in the role-requiring form, in every reachable state a submission
\* in progress implies that no outcome is stored: isProcessing = true
\* implies processedResume = null.
C22_NoOutcomeWhileProcessing ==
  isProcessing => (processedResume.isNull /\ processedResume = NoOutcome)

\* a retry is in progress, the failure it followed cleared
C22_Witness ==
  /\ isProcessing
  /\ event.op = "retrySubmit"
  /\ event.request # NoRequest
  /\ pending # <<>>
  /\ processedResume.isNull

\* C23: every submission that starts eventually completes, provided its
\* network call settles: isProcessing leads to a state where the
\* continuation of that submission has run, isProcessing is false and one
\* outcome is stored, a success or a failure with a message, on every path.
C23_SubmissionCompletes ==
  /\ [](event.op = "settle" =>
          /\ ~isProcessing
          /\ ~processedResume.isNull
          /\ pending = <<>>
          /\ (processedResume.success \/ processedResume.error # <<>>))
  /\ (isProcessing ~> (event.op = "settle" /\ ~isProcessing /\ ~processedResume.isNull))

\* a submission whose fetch was rejected has completed with a failure
C23_Witness ==
  /\ event.op = "settle"
  /\ event.response.failed
  /\ event.request # NoRequest
  /\ ~isProcessing
  /\ processedResume = Failure(<<"Failed to fetch">>)

====
